---- MODULE Spec2Model ----
(***************************************************************************)
(* Model of the Airtable -> Sellsy client synchronisation:                 *)
(*   src/main.py        orchestration (main, ClientSynchronizer)           *)
(*   src/sellsy_api.py  registry client (SellsyAPI: token, request_api)    *)
(*   src/airtable_api.py ledger client (AirtableAPI)                       *)
(*                                                                         *)
(* Python strings are sequences of one-character strings, so that strip,   *)
(* lower and str are modelled by what they do.  Field names carrying       *)
(* accents in the source are written without them ("Telephone" for the     *)
(* source's "Téléphone", "Adresse complete" for "Adresse complète").       *)
(***************************************************************************)
EXTENDS Integers, Sequences, FiniteSets, TLC

(***************************************************************************)
(* Bounds of the exploration                                               *)
(***************************************************************************)
MaxRows == 2
MaxCalls == 2
MaxEntities == 2

(***************************************************************************)
(* Python values: str, int, None                                           *)
(***************************************************************************)
StrV(s) == [t |-> "str", s |-> s, n |-> 0]
NumV(n) == [t |-> "num", s |-> <<>>, n |-> n]
NullV == [t |-> "null", s |-> <<>>, n |-> 0]

\* bool(v): the truth value Python gives to `not v`
Truthy(v) ==
  CASE v.t = "str" -> Len(v.s) > 0
    [] v.t = "num" -> v.n # 0
    [] OTHER -> FALSE

Digit(d) ==
  CASE d = 0 -> "0" [] d = 1 -> "1" [] d = 2 -> "2" [] d = 3 -> "3"
    [] d = 4 -> "4" [] d = 5 -> "5" [] d = 6 -> "6" [] d = 7 -> "7"
    [] d = 8 -> "8" [] OTHER -> "9"

RECURSIVE Digits(_)
Digits(n) == IF n < 10 THEN <<Digit(n)>> ELSE Append(Digits(n \div 10), Digit(n % 10))

\* str(v)
Str(v) ==
  CASE v.t = "str" -> v.s
    [] v.t = "num" -> Digits(v.n)
    [] OTHER -> <<"N", "o", "n", "e">>

IsSpace(c) == c = " "

RECURSIVE LStrip(_)
LStrip(s) == IF s # <<>> /\ IsSpace(Head(s)) THEN LStrip(Tail(s)) ELSE s

RECURSIVE RStrip(_)
RStrip(s) ==
  IF s # <<>> /\ IsSpace(s[Len(s)]) THEN RStrip(SubSeq(s, 1, Len(s) - 1)) ELSE s

\* str.strip()
Strip(s) == RStrip(LStrip(s))

LowerChar(c) ==
  CASE c = "N" -> "n" [] c = "O" -> "o" [] c = "E" -> "e" [] c = "A" -> "a"
    [] c = "X" -> "x" [] OTHER -> c

\* str.lower()
Lower(s) == [i \in 1..Len(s) |-> LowerChar(s[i])]

\* c in s
Contains(s, c) == \E i \in 1..Len(s) : s[i] = c

\* dict.get(k, default)
Get(f, k, default) == IF k \in DOMAIN f THEN f[k] ELSE default

(***************************************************************************)
(* main.py: identify_sellsy_id_field and the candidate filter              *)
(***************************************************************************)
possible_id_fields ==
  << "ID_Sellsy", "Id_Sellsy", "id_sellsy", "ID Sellsy", "Id Sellsy",
     "id sellsy", "IDSellsy", "Sellsy ID", "sellsy_id", "sellsy-id" >>

DefaultIdField == "ID_Sellsy"

identify_sellsy_id_field_LastMatch(sample_records) ==
  IF Len(sample_records) = 0 THEN DefaultIdField
  ELSE LET sample_fields == sample_records[1].fields
           hits == { i \in 1..Len(possible_id_fields) :
                       possible_id_fields[i] \in DOMAIN sample_fields }
       IN IF hits = {} THEN DefaultIdField
          ELSE possible_id_fields[CHOOSE i \in hits : \A j \in hits : i >= j]

\* main.py 372-401
identify_sellsy_id_field(sample_records) ==
  IF Len(sample_records) = 0 THEN DefaultIdField
  ELSE LET sample_fields == sample_records[1].fields
           hits == { i \in 1..Len(possible_id_fields) :
                       possible_id_fields[i] \in DOMAIN sample_fields }
       IN IF hits = {} THEN DefaultIdField
          ELSE possible_id_fields[CHOOSE i \in hits : \A j \in hits : i <= j]

IsCandidate_CaseSensitive(record, sellsy_id_field) ==
  LET fields == record.fields IN
  IF sellsy_id_field \notin DOMAIN fields \/ ~Truthy(fields[sellsy_id_field])
  THEN TRUE
  ELSE LET id_value == Strip(Str(fields[sellsy_id_field]))
       IN id_value = <<>> \/ id_value = <<"n", "o", "n", "e">>

\* main.py 429-442: is the record appended to records_to_sync
IsCandidate(record, sellsy_id_field) ==
  LET fields == record.fields IN
  IF sellsy_id_field \notin DOMAIN fields \/ ~Truthy(fields[sellsy_id_field])
  THEN TRUE
  ELSE LET id_value == Strip(Str(fields[sellsy_id_field]))
       IN id_value = <<>> \/ Lower(id_value) = <<"n", "o", "n", "e">>

FilterRecords_Reversed(all_records, sellsy_id_field) ==
  LET Keep(r) == IsCandidate(r, sellsy_id_field)
      kept == SelectSeq(all_records, Keep)
  IN [i \in 1..Len(kept) |-> kept[Len(kept) + 1 - i]]

FilterRecords(all_records, sellsy_id_field) ==
  LET Keep(r) == IsCandidate(r, sellsy_id_field)
  IN SelectSeq(all_records, Keep)

(***************************************************************************)
(* main.py: ClientSynchronizer.sanitize_client_data                        *)
(***************************************************************************)
F_Entreprise == "Nom de l'entreprise"

RequiredCompany ==
  << F_Entreprise, "Email", "Telephone", "Adresse complete", "Code postal", "Ville" >>

RequiredPerson ==
  << "Nom", "Prenom", "Email", "Telephone", "Adresse complete", "Code postal", "Ville" >>

missing_fields_FirstOnly(record_fields, required_fields) ==
  LET IsMissing(f) == f \notin DOMAIN record_fields \/ ~Truthy(record_fields[f])
      all == SelectSeq(required_fields, IsMissing)
  IN IF all = <<>> THEN <<>> ELSE <<all[1]>>

\* lines 138-142: the required fields absent from the row or holding a false
\* value, in the order of required_fields
missing_fields(record_fields, required_fields) ==
  LET IsMissing(f) == f \notin DOMAIN record_fields \/ ~Truthy(record_fields[f])
  IN SelectSeq(required_fields, IsMissing)

\* the mapper returns None; missing is the list named by the warning of line
\* 145, invalid_email tells that the warning of line 165 was issued
Rejected(missing, badmail) ==
  [ok |-> FALSE, type |-> "none", email |-> <<>>, missing |-> missing,
   invalid_email |-> badmail, country |-> [t |-> "dict"]]

sanitize_client_data_NoEmailCheck(record_fields) ==
  LET nom_entreprise == Strip(Str(Get(record_fields, F_Entreprise, StrV(<<>>))))
      required_fields == IF nom_entreprise # <<>> THEN RequiredCompany ELSE RequiredPerson
      missing == missing_fields(record_fields, required_fields)
  IN IF missing # <<>> THEN Rejected(missing, FALSE)
     ELSE [ok |-> TRUE,
           type |-> IF nom_entreprise # <<>> THEN "corporation" ELSE "person",
           email |-> Strip(Str(record_fields["Email"])), missing |-> <<>>,
           invalid_email |-> FALSE, country |-> [t |-> "dict"]]

sanitize_client_data(record_fields) ==
  LET nom_entreprise == Strip(Str(Get(record_fields, F_Entreprise, StrV(<<>>))))
      required_fields == IF nom_entreprise # <<>> THEN RequiredCompany ELSE RequiredPerson
      missing == missing_fields(record_fields, required_fields)
  IN IF missing # <<>> THEN Rejected(missing, FALSE)
     ELSE LET email == Strip(Str(record_fields["Email"]))
          IN IF ~Contains(email, "@") THEN Rejected(<<>>, TRUE)
             ELSE [ok |-> TRUE,
                   type |-> IF nom_entreprise # <<>> THEN "corporation" ELSE "person",
                   email |-> email, missing |-> <<>>, invalid_email |-> FALSE,
                   \* "address": {"country": {"code": pays_code}, ...}
                   country |-> [t |-> "dict"]]

(***************************************************************************)
(* State                                                                   *)
(*                                                                         *)
(* Time is kept by count-down timers: sellsy.token_expires_at holds the    *)
(* number of seconds from the current instant to the instant the code      *)
(* stored in self.token_expires_at, so `datetime.now() >= token_expires_at`*)
(* reads `0 >= timer`.  Elapse moves every timer when time passes.         *)
(***************************************************************************)
VARIABLES
  sellsy,          \* SellsyAPI fields: access_token, refresh_token, token_expires_at
  api_pc,          \* request_api: "idle", "loop" (at the while test), "ret" (returned)
  retry_count,     \* request_api local
  api_endpoint,    \* request_api arguments: method and endpoint
  api_row,         \* ledger record on whose behalf the call is made ("" for none)
  api_result,      \* value returned by request_api
  elapsed,         \* seconds elapsed since request_api was entered (history)
  call_log,        \* requests sent during the current request_api call (history)
  entry_token,     \* the token state when request_api was entered (history)
  entities,        \* registry: number of entities created, per ledger record id
  ledger,          \* ledger table: sequence of records [id, fields]
  id_column,       \* ledger schema: name of the back-reference column
  page_log,        \* history of the last get_records call: exchanges and result
  config,          \* Config: the required environment variables that are set
  exit_status,     \* how the process last ended ("none": it has not, or it runs)
  pc,              \* position of main()
  sellsy_id_field, \* main local
  records_to_sync, \* main local
  idx,             \* main local: index of the record being synchronised
  row,             \* locals of synchronize_client / create_client for that record
  sync_result,     \* ClientSynchronizer.sync_result
  run_log,         \* history of the current run: registry requests and write-backs
  synced,          \* history: record ids whose write-back has succeeded
  trace,           \* is the history of the current request_api call recorded
  expires_ins,     \* token endpoint: the expires_in values it answers (seconds)
  ncalls           \* number of direct API calls made (API-level specification)

apiVars == <<api_pc, retry_count, api_endpoint, api_row, api_result, elapsed, call_log,
             entry_token>>
regVars == <<entities>>
ledgerVars == <<ledger, id_column, page_log>>
mainVars == <<config, exit_status, pc, sellsy_id_field, records_to_sync, idx, row,
              sync_result, run_log, synced>>
envVars == <<trace, expires_ins>>
vars == <<sellsy, apiVars, regVars, ledgerVars, mainVars, envVars, ncalls>>

RecIds == <<"rec1", "rec2", "rec3", "rec4">>
RowIds == { RecIds[i] : i \in 1..MaxRows }

\* The registry gives every entity it creates an identifier of its own: the
\* next entity created for the i-th ledger row, which has n already, gets
\* 10 * i + n + 1
fresh_id(ents, rec) ==
  10 * (CHOOSE i \in 1..Len(RecIds) : RecIds[i] = rec) + ents[rec] + 1

(***************************************************************************)
(* main.py: Config and check_configuration                                 *)
(***************************************************************************)
\* the environment variables the program requires (lines 53-59)
RequiredConfig ==
  { "AIRTABLE_API_KEY", "AIRTABLE_BASE_ID", "AIRTABLE_TABLE_NAME",
    "SELLSY_CLIENT_ID", "SELLSY_CLIENT_SECRET" }

all_set_IgnoresSecret(cfg) == RequiredConfig \ {"SELLSY_CLIENT_SECRET"} \subseteq cfg

\* every required variable is set: the test made by check_configuration
\* (lines 347-361) and again by ClientSynchronizer.__init__ (lines 69-77)
all_set(cfg) == RequiredConfig \subseteq cfg

check_configuration(cfg) == all_set(cfg)

(***************************************************************************)
(* sellsy_api.py: token handling                                           *)
(***************************************************************************)
\* access_token / refresh_token values: None, the value given to __init__
\* (from the environment), or one issued by the token endpoint.  life is
\* the number of seconds until the token endpoint's own expiry of the token
\* (issue time + expires_in), a history value the code does not hold; it is
\* counted down until the token enters the safety margin.
NoToken == [k |-> "none", life |-> 0]
EnvToken == [k |-> "env", life |-> 0]
Token(e) == [k |-> "tok", life |-> e]

NoneAt == [some |-> FALSE, at |-> 0]
At(t) == [some |-> TRUE, at |-> t]

SafetyMargin == 60
\* expires_in values the token endpoint answers: for the calls of the
\* API-level specification, tokens that are expired when issued (30) and
\* tokens that expire a few seconds later (70); for main, tokens no run
\* outlives (3600 is also the value the code assumes when the answer carries
\* none)
ApiExpiresIns == {30, 70}
RunExpiresIns == {3600}
\* a timer above Horizon is not counted down: it cannot reach zero in a run
Horizon == 1000

\* answers of the token endpoint: 200 with a well-formed body, 200 with a
\* body that carries "access_token" and an "expires_in" that is not a number
\* (the field expires_in of the answer is then the lifetime the token has at
\* the registry), non-200, 200 with a body that is not JSON, no answer
TokenAnswers ==
  { [k |-> x, expires_in |-> e, refresh |-> b] :
      x \in {"ok", "bad_expires_in"}, e \in expires_ins, b \in BOOLEAN }
    \cup
  { [k |-> x, expires_in |-> 0, refresh |-> FALSE] :
      x \in {"http_error", "bad_json", "timeout"} }

\* answers to a client_credentials request: the body carries no refresh token
CredentialAnswers == { a \in TokenAnswers : ~a.refresh }

\* no request is made to the token endpoint
NoAnswer == [k |-> "unused", expires_in |-> 0, refresh |-> FALSE]

\* a timer after d more seconds
Dec(x, d) ==
  IF x <= 0 \/ x > Horizon THEN x ELSE IF x - d < 0 THEN 0 ELSE x - d

DecLife(x, d) ==
  IF x <= SafetyMargin \/ x > Horizon THEN x
  ELSE IF x - d < SafetyMargin THEN SafetyMargin ELSE x - d

Elapse(self, d) ==
  [self EXCEPT !.access_token.life = DecLife(@, d),
               !.token_expires_at.at = Dec(@, d)]

is_token_expired_UnsetOnly(self) ==
  \/ self.access_token.k = "none"
  \/ ~self.token_expires_at.some

is_token_expired(self) ==
  \/ self.access_token.k = "none"
  \/ ~self.token_expires_at.some
  \/ 0 >= self.token_expires_at.at

\* the token fields after a 200 answer with a well-formed body
StoreToken(self, ans, with_refresh) ==
  LET expires_in == ans.expires_in
  IN [access_token |-> Token(expires_in),
      refresh_token |-> IF with_refresh /\ ans.refresh THEN Token(0)
                        ELSE self.refresh_token,
      token_expires_at |-> At(expires_in - SafetyMargin)]

get_access_token_AlwaysTrue(self, ans) ==
  [self |-> IF ans.k = "ok" THEN StoreToken(self, ans, FALSE)
            ELSE IF ans.k = "bad_expires_in"
            THEN [self EXCEPT !.access_token = Token(ans.expires_in)]
            ELSE self,
   ret |-> TRUE, grant |-> "client_credentials"]

\* lines 115-127 (get_access_token) and 180-191 (refresh_access_token): the
\* assignments made before `expires_in - 60` raises TypeError, which the
\* outer handler catches
StoreBeforeRaise(self, ans, with_refresh) ==
  [self EXCEPT !.access_token = Token(ans.expires_in),
               !.refresh_token = IF with_refresh /\ ans.refresh THEN Token(0) ELSE @]

get_access_token(self, ans) ==
  IF ans.k = "ok"
  THEN [self |-> StoreToken(self, ans, FALSE), ret |-> TRUE,
        grant |-> "client_credentials"]
  ELSE IF ans.k = "bad_expires_in"
  THEN [self |-> StoreBeforeRaise(self, ans, FALSE), ret |-> FALSE,
        grant |-> "client_credentials"]
  ELSE [self |-> self, ret |-> FALSE, grant |-> "client_credentials"]

refresh_access_token(self, ans) ==
  IF self.refresh_token.k # "none"
  THEN IF ans.k = "ok"
       THEN [self |-> StoreToken(self, ans, TRUE), ret |-> TRUE,
             grant |-> "refresh_token"]
       ELSE IF ans.k = "bad_expires_in"
       THEN [self |-> StoreBeforeRaise(self, ans, TRUE), ret |-> FALSE,
             grant |-> "refresh_token"]
       ELSE [self |-> self, ret |-> FALSE, grant |-> "refresh_token"]
  ELSE get_access_token(self, ans)

(***************************************************************************)
(* sellsy_api.py: request_api                                              *)
(***************************************************************************)
max_retries == 3

OkStatuses == {200, 201, 202, 204}
TransientStatuses_With400 == {400, 429, 500, 502, 503, 504}

TransientStatuses == {429, 500, 502, 503, 504}

\* answers of the registry to one request.  applied: the registry performed
\* the operation (a request whose answer is lost may have been performed)
RegistryAnswers ==
  { [k |-> "http", status |-> 201, body |-> "id", applied |-> TRUE],
    [k |-> "http", status |-> 200, body |-> "noid", applied |-> TRUE],
    [k |-> "http", status |-> 200, body |-> "nonjson", applied |-> TRUE],
    [k |-> "http", status |-> 401, body |-> "err", applied |-> FALSE],
    [k |-> "http", status |-> 503, body |-> "err", applied |-> FALSE],
    [k |-> "http", status |-> 400, body |-> "err", applied |-> FALSE],
    [k |-> "timeout", status |-> 0, body |-> "err", applied |-> FALSE],
    [k |-> "timeout", status |-> 0, body |-> "err", applied |-> TRUE],
    [k |-> "conn_error", status |-> 0, body |-> "err", applied |-> FALSE] }

IsEntityPost(ep) == ep \in {"POST /individuals", "POST /companies"}

NoneResult == [k |-> "None", id |-> 0]
DictResult(id) == [k |-> "dict", id |-> id]

\* log entries: a request to the token endpoint (with the grant used and the
\* kind of answer it got), a request to the registry (with the kind of answer,
\* its status and the lifetime left to the token presented)
TokenEvent(grant, t, ans) ==
  [ev |-> "token", grant |-> grant, at |-> t, k |-> ans.k, status |-> 0, life |-> 0]
RegEvent(t, ans, tok) ==
  [ev |-> "reg", grant |-> "", at |-> t, k |-> ans.k,
   status |-> IF ans.k = "http" THEN ans.status ELSE 0, life |-> tok.life]

Backoff_Constant(n) == 2

\* 2 ** retry_count
Backoff(n) == IF n = 1 THEN 2 ELSE IF n = 2 THEN 4 ELSE IF n = 3 THEN 8 ELSE 16

while_test_Unbounded(count) == TRUE

\* the test of the while loop (line 222)
while_test(count) == count < max_retries

\* what is known of the token at an instant: are a token and an expiry held,
\* and the lifetime the expiry held leaves to the token (token_expires_at is
\* the expiry less the margin)
NoEntry == [known |-> FALSE, life |-> 0]
EntryOf(self) ==
  [known |-> self.access_token.k # "none" /\ self.token_expires_at.some,
   life |-> IF self.token_expires_at.some THEN self.token_expires_at.at + SafetyMargin
            ELSE 0]

\* entry of request_api (lines 219-220)
BeginRequestApi(endpoint, rec) ==
  /\ api_pc' = "loop"
  /\ retry_count' = 0
  /\ api_endpoint' = endpoint
  /\ api_row' = rec
  /\ api_result' = NoneResult
  /\ elapsed' = 0
  /\ call_log' = <<>>
  /\ entry_token' = IF trace THEN EntryOf(sellsy) ELSE NoEntry

\* the outcome of one pass through the while body (lines 223-306), as
\* [self, log, count, sleep, result, go, sent]: go is TRUE for `continue`,
\* sent is TRUE when the request reached the registry
AttemptOutcome(self0, t, count, tokAns, refAns, ans, new_id) ==
  LET expired == is_token_expired(self0)
      g == get_access_token(self0, tokAns)
      self1 == IF expired THEN g.self ELSE self0
      log1 == IF expired THEN <<TokenEvent(g.grant, t, tokAns)>> ELSE <<>>
      log2 == Append(log1, RegEvent(t, ans, self1.access_token))
      r == refresh_access_token(self1, refAns)
      log3 == Append(log2, TokenEvent(r.grant, t, refAns))
      Out(s, l, c, w, res, go) ==
        [self |-> s, log |-> l, count |-> c, sleep |-> w, result |-> res, go |-> go,
         sent |-> l # log1]
  IN IF expired /\ ~g.ret THEN Out(self1, log1, count, 0, NoneResult, FALSE)
     ELSE IF ans.k = "http" /\ ans.status \in OkStatuses
       THEN IF ans.body = "nonjson" THEN Out(self1, log2, count, 0, NoneResult, FALSE)
            ELSE IF ans.body = "id" THEN Out(self1, log2, count, 0, DictResult(new_id), FALSE)
            ELSE Out(self1, log2, count, 0, DictResult(0), FALSE)
     ELSE IF ans.k = "http" /\ ans.status = 401
       THEN IF r.ret THEN Out(r.self, log3, count + 1, 0, NoneResult, TRUE)
            ELSE Out(r.self, log3, count, 0, NoneResult, FALSE)
     ELSE IF ans.k = "http" /\ ans.status \in TransientStatuses
       THEN Out(self1, log2, count + 1, Backoff(count + 1), NoneResult, TRUE)
     ELSE IF ans.k = "http"
       THEN Out(self1, log2, count, 0, NoneResult, FALSE)
     ELSE IF ans.k = "timeout"
       THEN IF count + 1 < max_retries
            THEN Out(self1, log2, count + 1, Backoff(count + 1), NoneResult, TRUE)
            ELSE Out(self1, log2, count + 1, 0, NoneResult, FALSE)
     ELSE Out(self1, log2, count, 0, NoneResult, FALSE)

\* what the two services may answer during one pass: <<registry answer,
\* answer to the token request of line 226, answer to the refresh of line 270>>
AttemptChoices(self) ==
  UNION { { <<ans, tokAns, refAns>> :
              tokAns \in (IF is_token_expired(self) THEN CredentialAnswers ELSE {NoAnswer}),
              refAns \in (IF ans.status = 401 THEN TokenAnswers ELSE {NoAnswer}) } :
          ans \in RegistryAnswers }

\* does the pass create an entity in the registry
Creates(o, ans, endpoint) == o.sent /\ ans.applied /\ IsEntityPost(endpoint)

\* The whole call as a relation.  A frame is the loop state at the while
\* test, [self, count, created]; RequestApiFrom gives the set of
\* [self, result, created] a call may end with from a set of frames.
PassResults(f, endpoint, base_id) ==
  { LET o == AttemptOutcome(f.self, 0, f.count, c[2], c[3], c[1], base_id + f.created)
    IN [self |-> Elapse(o.self, o.sleep), count |-> o.count, result |-> o.result,
        created |-> IF Creates(o, c[1], endpoint) THEN f.created + 1 ELSE f.created,
        again |-> o.go /\ while_test(o.count)] : c \in AttemptChoices(f.self) }

RECURSIVE RequestApiFrom(_, _, _)
RequestApiFrom(frames, endpoint, base_id) ==
  IF frames = {} THEN {}
  ELSE LET res == UNION { PassResults(f, endpoint, base_id) : f \in frames }
           again == { r \in res : r.again }
       IN { [self |-> r.self, result |-> r.result, created |-> r.created] : r \in res \ again }
            \cup
          RequestApiFrom({ [self |-> r.self, count |-> r.count, created |-> r.created] :
                             r \in again }, endpoint, base_id)

\* request_api(method, endpoint, ...) called on the object self
request_api(self, endpoint, base_id) ==
  RequestApiFrom({ [self |-> self, count |-> 0, created |-> 0] }, endpoint, base_id)

\* one iteration of the while loop of request_api
Attempt ==
  /\ api_pc = "loop"
  /\ \E c \in AttemptChoices(sellsy) :
       LET o == AttemptOutcome(sellsy, elapsed, retry_count, c[2], c[3], c[1], fresh_id(entities, api_row))
           creates == Creates(o, c[1], api_endpoint)
       IN /\ sellsy' = Elapse(o.self, o.sleep)
          /\ call_log' = IF trace THEN call_log \o o.log ELSE call_log
          /\ retry_count' = o.count
          /\ elapsed' = IF trace THEN elapsed + o.sleep ELSE elapsed
          /\ api_result' = o.result
          /\ api_pc' = IF o.go /\ while_test(o.count) THEN "loop" ELSE "ret"
          /\ entities' = IF creates THEN [entities EXCEPT ![api_row] = @ + 1] ELSE entities
  /\ UNCHANGED <<api_endpoint, api_row, entry_token, ledgerVars, mainVars, envVars, ncalls>>

(***************************************************************************)
(* API-level specification: a SellsyAPI object driven by direct calls      *)
(***************************************************************************)
\* a second passes between two calls
Tick ==
  /\ api_pc = "idle"
  /\ sellsy' = Elapse(sellsy, 1)
  /\ sellsy' # sellsy
  /\ UNCHANGED <<apiVars, regVars, ledgerVars, mainVars, envVars, ncalls>>

\* SellsyAPI.__init__ (lines 30-34)
NewSellsyAPI(access_token, refresh_token) ==
  [access_token |-> access_token, refresh_token |-> refresh_token,
   token_expires_at |-> NoneAt]

\* no get_records call has been recorded
NoPageLog == [records |-> <<>>, log |-> <<>>]

NoRow ==
  [ok |-> FALSE, type |-> "none", client_id |-> 0, email |-> <<>>, missing |-> <<>>,
   invalid_email |-> FALSE, address_result |-> FALSE, contact_result |-> FALSE,
   explicit |-> "none"]

\* the locals of synchronize_client once the mapper has returned
\* formatted_data, with the identifier create_client answered (0: none);
\* address_result and contact_result are the locals of create_client (lines
\* 379 and 387), set when the two follow-up requests have returned; explicit
\* is how create_address_for_client ended: it raised before any request, or
\* the registry accepted or refused the address it sent
RowOf(formatted_data, client_id) ==
  [ok |-> formatted_data.ok, type |-> formatted_data.type, client_id |-> client_id,
   email |-> formatted_data.email, missing |-> formatted_data.missing,
   invalid_email |-> formatted_data.invalid_email,
   address_result |-> FALSE, contact_result |-> FALSE, explicit |-> "none"]

MainIdle ==
  /\ config = RequiredConfig
  /\ exit_status = "none"
  /\ pc = "off"
  /\ sellsy_id_field = DefaultIdField
  /\ records_to_sync = <<>>
  /\ idx = 0
  /\ row = NoRow
  /\ sync_result = <<>>
  /\ run_log = <<>>
  /\ synced = {}

ApiIdle ==
  /\ api_pc = "idle"
  /\ retry_count = 0
  /\ api_endpoint = ""
  /\ api_row = ""
  /\ api_result = NoneResult
  /\ elapsed = 0
  /\ call_log = <<>>
  /\ entry_token = NoEntry

ApiInit ==
  /\ \E a \in {NoToken, EnvToken}, r \in {NoToken, EnvToken} : sellsy = NewSellsyAPI(a, r)
  /\ ApiIdle
  /\ entities = [r \in RowIds |-> 0]
  /\ ledger = <<>>
  /\ id_column = DefaultIdField
  /\ page_log = NoPageLog
  /\ MainIdle
  /\ trace = TRUE
  /\ expires_ins = ApiExpiresIns
  /\ ncalls = 0

\* a caller invokes get_access_token() (as test_authentication does)
CallGetAccessToken ==
  /\ api_pc = "idle"
  /\ ncalls < MaxCalls
  /\ \E tokAns \in CredentialAnswers : sellsy' = get_access_token(sellsy, tokAns).self
  /\ ncalls' = ncalls + 1
  /\ UNCHANGED <<apiVars, regVars, ledgerVars, mainVars, envVars>>

\* a caller invokes request_api(method, endpoint, ...)
CallRequestApi ==
  /\ api_pc = "idle"
  /\ ncalls < MaxCalls
  /\ \E ep \in {"GET /companies", "POST /individuals"} : BeginRequestApi(ep, RecIds[1])
  /\ ncalls' = ncalls + 1
  /\ UNCHANGED <<sellsy, regVars, ledgerVars, mainVars, envVars>>

\* request_api has returned to its caller, which drops the result
ApiReturn ==
  /\ api_pc = "ret"
  /\ pc = "off"
  /\ api_pc' = "idle"
  /\ retry_count' = 0
  /\ api_endpoint' = ""
  /\ api_row' = ""
  /\ api_result' = NoneResult
  /\ elapsed' = 0
  /\ call_log' = <<>>
  /\ entry_token' = NoEntry
  /\ UNCHANGED <<sellsy, regVars, ledgerVars, mainVars, envVars, ncalls>>

ApiNext == Tick \/ CallGetAccessToken \/ CallRequestApi \/ Attempt \/ ApiReturn

ApiSpec == ApiInit /\ [][ApiNext]_vars

\* A call that has been entered keeps running: every pass through the loop
\* either returns or comes back to the while test with retry_count increased
ApiStep ==
  /\ api_pc = "loop"
  /\ \/ api_pc' = "ret" /\ retry_count' \in 0..max_retries
     \/ api_pc' = "loop" /\ retry_count' = retry_count + 1

FairApiSpec == ApiInit /\ [][ApiNext]_vars /\ WF_<<api_pc, retry_count>>(ApiStep)

(***************************************************************************)
(* The two token functions on their own: an object as constructed, on      *)
(* which get_access_token and refresh_access_token are called in any       *)
(* order, each call and the answer it got recorded in call_log             *)
(***************************************************************************)
MaxTokenCalls == 3

TokenCall(r, ans) ==
  /\ ncalls < MaxTokenCalls
  /\ sellsy' = r.self
  /\ call_log' = Append(call_log, TokenEvent(r.grant, 0, ans))
  /\ ncalls' = ncalls + 1
  /\ UNCHANGED <<api_pc, retry_count, api_endpoint, api_row, api_result, elapsed,
                 entry_token, regVars, ledgerVars, mainVars, envVars>>

GetAccessTokenCall ==
  \E ans \in CredentialAnswers : TokenCall(get_access_token(sellsy, ans), ans)

RefreshAccessTokenCall ==
  \E ans \in TokenAnswers : TokenCall(refresh_access_token(sellsy, ans), ans)

TokenNext == GetAccessTokenCall \/ RefreshAccessTokenCall

TokenSpec == ApiInit /\ [][TokenNext]_vars

(***************************************************************************)
(* airtable_api.py: the ledger                                             *)
(***************************************************************************)
\* rows the ledger serves per page
PageSize == 1

Min(a, b) == IF a < b THEN a ELSE b

\* one request of get_records and its answer: the cursor sent (0: none),
\* whether the request succeeded, the rows of the page and the cursor in the
\* answer (0: none)
Exchange(sent, ok, rows, cursor) ==
  [sent |-> sent, ok |-> ok, rows |-> rows, cursor |-> cursor]

more_pages_FirstOnly(offset) == FALSE

\* lines 74-76: the loop goes on while the answer carries an "offset"
more_pages(offset) == offset # 0

failed_result_Partial(records) == records

\* lines 59-61 and 81-89: a failed request, whatever was read before it
failed_result(records) == <<>>

\* the loop of get_records (lines 37-76).  limit = 0 stands for None, the
\* cursor 0 for an absent "offset"; the request of page fail_at fails.  The
\* ledger serves PageSize rows per page, at most limit rows in all when
\* maxRecords is sent, and gives as cursor the number of rows served so far.
\* The value is [records, log]: what the call returns and its exchanges
RECURSIVE FetchPages(_, _, _, _, _, _, _)
FetchPages(table, limit, offset, records, fail_at, page_no, log) ==
  IF page_no = fail_at
  THEN [records |-> failed_result(records),
        log |-> Append(log, Exchange(offset, FALSE, <<>>, 0))]
  ELSE LET cap == IF limit # 0 THEN Min(limit, Len(table)) ELSE Len(table)
           hi == Min(offset + PageSize, cap)
           page_records == SubSeq(table, offset + 1, hi)
           next_offset == IF hi < cap THEN hi ELSE 0
           recs == records \o page_records
           log1 == Append(log, Exchange(offset, TRUE, page_records, next_offset))
       IN IF limit # 0 /\ Len(recs) >= limit
          THEN [records |-> SubSeq(recs, 1, limit), log |-> log1]
          ELSE IF ~more_pages(next_offset) THEN [records |-> recs, log |-> log1]
          ELSE FetchPages(table, limit, next_offset, recs, fail_at, page_no + 1, log1)

get_records_call(table, limit, fail_at) == FetchPages(table, limit, 0, <<>>, fail_at, 1, <<>>)

get_records(table, limit, fail_at) == get_records_call(table, limit, fail_at).records

Patched_EveryRow(table, record_id, field, value) ==
  [i \in 1..Len(table) |->
     [table[i] EXCEPT !.fields = (field :> value) @@ table[i].fields]]

\* the table after a successful PATCH of one field of one record
Patched(table, record_id, field, value) ==
  [i \in 1..Len(table) |->
     IF table[i].id = record_id
     THEN [table[i] EXCEPT !.fields = (field :> value) @@ table[i].fields]
     ELSE table[i]]

(***************************************************************************)
(* Ledger contents explored                                                *)
(***************************************************************************)
Chars(a, b) == StrV(<<a, b>>)

CommonFields ==
  ("Email" :> StrV(<<"a", "@", "x">>)) @@ ("Telephone" :> Chars("0", "1")) @@
  ("Adresse complete" :> Chars("1", "a")) @@ ("Code postal" :> NumV(75)) @@
  ("Ville" :> Chars("x", "a"))

PersonFields == ("Nom" :> Chars("a", "x")) @@ ("Prenom" :> Chars("x", "a")) @@ CommonFields
CompanyFields == (F_Entreprise :> Chars("a", "a")) @@ CommonFields
BadEmailFields == ("Email" :> Chars("a", "x")) @@ PersonFields

\* the names the back-reference column has in the ledgers explored
IdColumns == {"ID_Sellsy", "Sellsy ID"}

\* an individual without first name
MissingFields == [f \in DOMAIN PersonFields \ {"Prenom"} |-> PersonFields[f]]

\* an individual whose organization name holds one space
BlankOrgFields == (F_Entreprise :> StrV(<<" ">>)) @@ PersonFields

\* rows: an individual and two rows the mapper rejects, without the column;
\* a company whose column holds the text "None"
RowFieldSets(c) ==
  { BlankOrgFields, BadEmailFields, MissingFields,
    (c :> StrV(<<"N", "o", "n", "e">>)) @@ CompanyFields }

\* the tables explored: up to MaxRows rows, no two of the same kind
Ledgers(c) ==
  UNION { { [i \in 1..n |-> [id |-> RecIds[i], fields |-> fs[i]]] :
              fs \in { f \in [1..n -> RowFieldSets(c)] :
                         \A i, j \in 1..n : f[i] = f[j] => i = j } } :
          n \in 1..MaxRows }

(***************************************************************************)
(* sellsy_api.py / main.py: the address helpers                            *)
(***************************************************************************)
\* _format_address_for_v2 (lines 461-468): address.get("country", {}).get(...)
\* raises AttributeError when the country is a str
format_address_raises(address) == address.country.t # "dict"

formatted_address_DictCountry == [country |-> [t |-> "dict"]]

\* create_address_for_client (main.py 315-338): the address it hands to
\* create_address carries "country" as the code string (line 323)
formatted_address == [country |-> [t |-> "str"]]

\* does create_address_for_client reach request_api (line 332 -> 605)
explicit_address_requested == ~format_address_raises(formatted_address)

(***************************************************************************)
(* main.py: main                                                           *)
(***************************************************************************)
\* entries of run_log: the candidate filter has kept the records with the
\* identifiers ids, synchronize_client is entered for a record, request_api
\* has returned (for the entity request and the request of the startup
\* test, ok: the answer is a dict; for the entity request, id: the
\* identifier in it, 0 when there is none; the answers to the other requests
\* only reach the program's log), update_record has returned, the process
\* was stopped from outside
FilterEntry(ids) ==
  [k |-> "filter", row |-> "", endpoint |-> "", field |-> "", value |-> ids,
   ok |-> FALSE, id |-> 0]
SyncEntry(rec) ==
  [k |-> "sync", row |-> rec, endpoint |-> "", field |-> "", value |-> <<>>,
   ok |-> FALSE, id |-> 0]
ApiEntry(rec, endpoint, result) ==
  [k |-> "api", row |-> rec, endpoint |-> endpoint, field |-> "", value |-> <<>>,
   ok |-> (IsEntityPost(endpoint) \/ endpoint = "GET /companies") /\ result.k = "dict",
   id |-> IF IsEntityPost(endpoint) THEN result.id ELSE 0]
PatchEntry_AlwaysOk(rec, field, value, ok) ==
  [k |-> "patch", row |-> rec, endpoint |-> "", field |-> field, value |-> value,
   ok |-> TRUE, id |-> 0]
PatchEntry(rec, field, value, ok) ==
  [k |-> "patch", row |-> rec, endpoint |-> "", field |-> field, value |-> value,
   ok |-> ok, id |-> 0]
StopEntry ==
  [k |-> "stop", row |-> "", endpoint |-> "", field |-> "", value |-> <<>>,
   ok |-> FALSE, id |-> 0]

record_AlwaysFirst == records_to_sync[1]

\* main 483: the record of the current iteration
record == records_to_sync[idx]

EntityEndpoint_AlwaysIndividuals(type) == "POST /individuals"

\* create_client 363-366
EntityEndpoint(type) == IF type = "person" THEN "POST /individuals" ELSE "POST /companies"
AddressEndpoint(type) ==
  IF type = "person" THEN "POST /individuals/{id}/addresses"
  ELSE "POST /companies/{id}/addresses"
ContactEndpoint == "POST /companies/{id}/contacts"

\* request_api is called on behalf of record rec and ends with outcome out
CallApi(log, rec, endpoint, out) ==
  /\ entities[rec] + out.created <= MaxEntities
  /\ sellsy' = out.self
  /\ entities' = IF out.created > 0 THEN [entities EXCEPT ![rec] = @ + out.created]
                 ELSE entities
  /\ run_log' = Append(log, ApiEntry(rec, endpoint, out.result))

\* the process ends with the given status: everything it held is gone
ProcessEnd(status) ==
  /\ pc' = "off"
  /\ exit_status' = status
  /\ sellsy' = NewSellsyAPI(NoToken, NoToken)
  /\ sellsy_id_field' = DefaultIdField
  /\ records_to_sync' = <<>>
  /\ idx' = 0
  /\ row' = NoRow
  /\ sync_result' = <<>>

\* main returns (lines 411, 472, 491, 496, 501) and the interpreter exits
\* with status 0: main raises nothing and the script never calls sys.exit
ProcessExit == ProcessEnd("0")

Init ==
  /\ \E c \in IdColumns : id_column = c /\ ledger \in Ledgers(c)
  /\ page_log = NoPageLog
  /\ config \in SUBSET RequiredConfig
  /\ exit_status = "none"
  /\ sellsy = NewSellsyAPI(NoToken, NoToken)
  /\ ApiIdle
  /\ entities = [r \in RowIds |-> 0]
  /\ pc = "off"
  /\ sellsy_id_field = DefaultIdField
  /\ records_to_sync = <<>>
  /\ idx = 0
  /\ row = NoRow
  /\ sync_result = <<>>
  /\ run_log = <<>>
  /\ synced = {}
  /\ trace = FALSE
  /\ expires_ins = RunExpiresIns
  /\ ncalls = 0

\* the script is started
StartRun ==
  /\ pc = "off"
  /\ pc' = "check"
  /\ exit_status' = "none"
  /\ run_log' = <<>>
  /\ UNCHANGED <<sellsy, apiVars, regVars, ledgerVars, config, sellsy_id_field,
                 records_to_sync, idx, row, sync_result, synced, envVars, ncalls>>

\* main 408-412: check_configuration
CheckConfiguration ==
  /\ pc = "check"
  /\ IF check_configuration(config)
     THEN /\ pc' = "construct"
          /\ UNCHANGED <<sellsy, exit_status, sellsy_id_field, records_to_sync, idx, row,
                         sync_result>>
     ELSE ProcessExit
  /\ UNCHANGED <<apiVars, regVars, ledgerVars, config, run_log, synced, envVars,
                 ncalls>>

\* ClientSynchronizer.__init__ 69-97 up to test_authentication's
\* get_access_token (sellsy_api.py 321-323); the two optional tokens of the
\* environment may be set or not
TestAuthToken ==
  /\ pc = "construct"
  /\ IF ~all_set(config)
     THEN ProcessExit
     ELSE \E tokAns \in CredentialAnswers, a \in {NoToken, EnvToken},
             r \in {NoToken, EnvToken} :
            LET g == get_access_token(NewSellsyAPI(a, r), tokAns)
            IN IF g.ret
               THEN /\ sellsy' = g.self
                    /\ pc' = "test"
                    /\ UNCHANGED <<exit_status, sellsy_id_field, records_to_sync, idx, row,
                                   sync_result>>
               ELSE ProcessExit
  /\ UNCHANGED <<apiVars, regVars, ledgerVars, config, run_log, synced, envVars,
                 ncalls>>

test_authentication_AlwaysTrue(response) == TRUE

\* test_authentication 328-333: response is not None
test_authentication(response) == response.k # "None"

\* test_authentication 326-333 and ClientSynchronizer.__init__ 95-100
TestAuthRequest ==
  /\ pc = "test"
  /\ \E out \in request_api(sellsy, "GET /companies", 0) :
       /\ run_log' = Append(run_log, ApiEntry("", "GET /companies", out.result))
       /\ IF ~test_authentication(out.result)
          THEN ProcessExit
          ELSE /\ sellsy' = out.self
               /\ pc' = "sample"
               /\ UNCHANGED <<exit_status, sellsy_id_field, records_to_sync, idx, row,
                              sync_result>>
  /\ UNCHANGED <<apiVars, regVars, ledgerVars, config, synced, envVars, ncalls>>

\* main 419-420: get_records(None, 1) and identify_sellsy_id_field
SampleRecords ==
  /\ pc = "sample"
  /\ \E fail_at \in 0..1 :
       /\ sellsy_id_field' = identify_sellsy_id_field(get_records(ledger, 1, fail_at))
       /\ page_log' = IF trace THEN get_records_call(ledger, 1, fail_at) ELSE page_log
  /\ pc' = "fetch"
  /\ UNCHANGED <<sellsy, apiVars, regVars, ledger, id_column, config, exit_status,
                 records_to_sync,
                 idx, row, sync_result, run_log, synced, envVars, ncalls>>

\* main 424-444 and 476-489: get_records() and the candidate filter
FetchRecords ==
  /\ pc = "fetch"
  /\ \E fail_at \in 0..Len(ledger) :
       LET all_records == get_records(ledger, 0, fail_at)
           to_sync == FilterRecords(all_records, sellsy_id_field)
       IN /\ page_log' = IF trace THEN get_records_call(ledger, 0, fail_at) ELSE page_log
          /\ run_log' = Append(run_log,
                               FilterEntry([i \in 1..Len(to_sync) |-> to_sync[i].id]))
          /\ IF to_sync # <<>>
             THEN /\ records_to_sync' = to_sync
                  /\ idx' = 1
                  /\ pc' = "row"
                  /\ UNCHANGED <<sellsy, exit_status, sellsy_id_field, row, sync_result>>
             ELSE ProcessExit
  /\ UNCHANGED <<apiVars, regVars, ledger, id_column, config, synced, envVars, ncalls>>

sync_result_at_entry_Kept(old) == old

\* synchronize_client 256: self.sync_result = None
sync_result_at_entry(old) == <<>>

\* sync_client_wrapper 453-455 -> synchronize_client 250-273 ->
\* create_client 351-376 and 394-396 (the entity request), synchronize_client 293-297
BeginRow ==
  /\ pc = "row"
  /\ LET formatted_data == sanitize_client_data(record.fields)
         log == Append(run_log, SyncEntry(record.id))
         result0 == sync_result_at_entry(sync_result)
     IN IF ~formatted_data.ok
        THEN /\ pc' = "wrapper"
             /\ row' = RowOf(formatted_data, 0)
             /\ sync_result' = result0
             /\ run_log' = log
             /\ UNCHANGED <<sellsy, regVars>>
        ELSE \E out \in request_api(sellsy, EntityEndpoint(formatted_data.type),
                                    fresh_id(entities, record.id)) :
               /\ CallApi(log, record.id, EntityEndpoint(formatted_data.type), out)
               /\ sync_result' = result0
               /\ IF out.result.k = "dict" /\ out.result.id # 0
                  THEN /\ row' = RowOf(formatted_data, out.result.id)
                       /\ pc' = "address"
                  ELSE /\ row' = RowOf(formatted_data, 0)
                       /\ pc' = "wrapper"
  /\ UNCHANGED <<apiVars, ledgerVars, config, exit_status, sellsy_id_field, records_to_sync,
                 idx, synced, envVars, ncalls>>

\* create_client 377-383: create_address
CreateAddress ==
  /\ pc = "address"
  /\ ~format_address_raises([country |-> [t |-> "dict"]])
  /\ \E out \in request_api(sellsy, AddressEndpoint(row.type),
                          fresh_id(entities, record.id)) :
       /\ CallApi(run_log, record.id, AddressEndpoint(row.type), out)
       /\ row' = [row EXCEPT !.address_result = out.result.k = "dict"]
  /\ IF row.type # "person"
     THEN pc' = "contact"
     ELSE pc' = "explicit"
  /\ UNCHANGED sync_result
  /\ UNCHANGED <<apiVars, ledgerVars, config, exit_status, sellsy_id_field, records_to_sync,
                 idx, synced, envVars, ncalls>>

\* create_client 385-393: _create_client_contact
CreateContact ==
  /\ pc = "contact"
  /\ \E out \in request_api(sellsy, ContactEndpoint, fresh_id(entities, record.id)) :
       /\ CallApi(run_log, record.id, ContactEndpoint, out)
       /\ row' = [row EXCEPT !.contact_result = out.result.k = "dict"]
  /\ pc' = "explicit"
  /\ UNCHANGED sync_result
  /\ UNCHANGED <<apiVars, ledgerVars, config, exit_status, sellsy_id_field, records_to_sync,
                 idx, synced, envVars, ncalls>>

\* synchronize_client 275-292 once create_client has returned success with
\* an id: create_address_for_client (315-338: create_address is reached only
\* when _format_address_for_v2 does not raise), then sync_result
CreateAddressForClient ==
  /\ pc = "explicit"
  /\ IF explicit_address_requested
     THEN \E out \in request_api(sellsy, AddressEndpoint(row.type),
                                 fresh_id(entities, record.id)) :
            /\ CallApi(run_log, record.id, AddressEndpoint(row.type), out)
            /\ row' = [row EXCEPT !.explicit = IF out.result.k = "dict"
                                               THEN "accepted" ELSE "refused"]
     ELSE /\ row' = [row EXCEPT !.explicit = "raised"]
          /\ UNCHANGED <<sellsy, regVars, run_log>>
  /\ sync_result' = Str(NumV(row.client_id))
  /\ pc' = "wrapper"
  /\ UNCHANGED <<apiVars, ledgerVars, config, exit_status, sellsy_id_field, records_to_sync,
                 idx, synced, envVars, ncalls>>

\* sync_client_wrapper 457-471: synchronize_client has returned; update_record
\* when sync_result is set.  The ledger refuses a field that is not a column
\* of the table
WriteBack ==
  /\ pc = "wrapper"
  /\ IF sync_result # <<>>
     THEN \E accepted \in BOOLEAN :
            LET update_result == accepted /\ sellsy_id_field = id_column
            IN /\ ledger' = IF update_result
                            THEN Patched(ledger, record.id, sellsy_id_field,
                                         StrV(sync_result))
                            ELSE ledger
               /\ synced' = IF update_result THEN synced \cup {record.id} ELSE synced
               /\ run_log' = Append(run_log, PatchEntry(record.id, sellsy_id_field,
                                                        sync_result, update_result))
     ELSE UNCHANGED <<ledger, synced, run_log>>
  /\ pc' = "sleep"
  /\ UNCHANGED <<sellsy, apiVars, regVars, id_column, page_log, config, exit_status,
                 sellsy_id_field,
                 records_to_sync, idx, row, sync_result, envVars, ncalls>>

has_next_OnlyFirst(i, records) == FALSE

\* main 483: for i, record in enumerate(records_to_sync)
has_next(i, records) == i < Len(records)

\* main 483-501: time.sleep(1), then the next record or the end of the run
RowSleep ==
  /\ pc = "sleep"
  /\ IF has_next(idx, records_to_sync)
     THEN /\ sellsy' = Elapse(sellsy, 1)
          /\ idx' = idx + 1
          /\ pc' = "row"
          /\ UNCHANGED <<exit_status, sellsy_id_field, records_to_sync, row, sync_result>>
     ELSE ProcessExit
  /\ UNCHANGED <<apiVars, regVars, ledgerVars, config, run_log, synced, envVars,
                 ncalls>>

\* the process is stopped from outside at any point of a run; of the history
\* of a stopped run only the stop is kept
Crash ==
  /\ pc # "off"
  /\ ProcessEnd("killed")
  /\ run_log' = <<StopEntry>>
  /\ UNCHANGED <<apiVars, regVars, ledgerVars, config, synced, envVars, ncalls>>

RunNext ==
  \/ StartRun \/ CheckConfiguration \/ TestAuthToken \/ TestAuthRequest
  \/ SampleRecords \/ FetchRecords \/ BeginRow \/ CreateAddress \/ CreateContact
  \/ CreateAddressForClient
  \/ WriteBack \/ RowSleep

Next == RunNext \/ Crash

Spec == Init /\ [][Next]_vars

PcValues ==
  { "off", "check", "construct", "test", "sample", "fetch", "row", "address", "contact",
    "explicit",
    "wrapper", "sleep" }

\* a step of main: every action of RunNext moves pc, and one of them is
\* enabled in every state (the script can always be started again)
MainStep == pc' \in PcValues \ {pc}

\* main runs as one sequential process that nothing stops: its next step is
\* eventually taken (every request carries a timeout, every sleep ends)
FairSpec == Init /\ [][RunNext]_vars /\ WF_pc(MainStep)

(***************************************************************************)
(* The candidate filter on its own: main at line 424, about to fetch a     *)
(* table whose first row lacks the back-reference field and whose second   *)
(* row holds one of FilterValues in it                                     *)
(***************************************************************************)
Pads == { <<>>, <<" ">> }
Cores ==
  { <<>>, <<"n", "o", "n", "e">>, <<"N", "o", "n", "e">>, <<"N", "O", "N", "E">>,
    <<"n", "O", "n", "E">>, <<"n", "o", "n">>, <<"n", "o", "n", "e", "x">>,
    <<"x", "n", "o", "n", "e">>, <<"n", "o", " ", "n", "e">>, <<"4", "2">>, <<"0">> }

FilterValues ==
  { StrV(l \o c \o r) : l \in Pads, c \in Cores, r \in Pads }
    \cup { NumV(0), NumV(42), NullV }

FilterLedgers(c) ==
  { << [id |-> RecIds[1], fields |-> PersonFields],
       [id |-> RecIds[2], fields |-> (c :> v) @@ PersonFields] >> : v \in FilterValues }

FilterInit ==
  /\ \E c \in IdColumns :
       id_column = c /\ sellsy_id_field = c /\ ledger \in FilterLedgers(c)
  /\ page_log = NoPageLog
  /\ config = RequiredConfig
  /\ exit_status = "none"
  /\ sellsy = get_access_token(NewSellsyAPI(NoToken, NoToken),
                               [k |-> "ok", expires_in |-> 3600, refresh |-> FALSE]).self
  /\ ApiIdle
  /\ entities = [r \in RowIds |-> 0]
  /\ pc = "fetch"
  /\ records_to_sync = <<>>
  /\ idx = 0
  /\ row = NoRow
  /\ sync_result = <<>>
  /\ run_log = <<>>
  /\ synced = {}
  /\ trace = FALSE
  /\ expires_ins = RunExpiresIns
  /\ ncalls = 0

FilterSpec == FilterInit /\ [][FetchRecords]_vars

(***************************************************************************)
(* The two reads of the ledger on their own: main at line 419, about to    *)
(* sample one row and then to fetch the table, with the exchanges of       *)
(* get_records recorded                                                    *)
(***************************************************************************)
\* the alias names the first row of the tables explored may carry
SampledAliases == {"Sellsy ID", "sellsy_id", "ID_Sellsy", "id sellsy", "sellsy-id"}

\* a row holding the identifier "42" in each of the given columns
RowWithColumns(names) == [f \in names |-> Chars("4", "2")] @@ PersonFields

\* tables of up to MaxRows + 1 rows: the first row carries any subset of
\* SampledAliases, each later row no alias or the alias "Id_Sellsy"
ReadLedgers ==
  UNION { { [i \in 1..n |->
               [id |-> RecIds[i],
                fields |-> IF i = 1 THEN RowWithColumns(first)
                           ELSE IF later[i] THEN RowWithColumns({"Id_Sellsy"})
                           ELSE PersonFields]] :
              first \in SUBSET SampledAliases, later \in [1..n -> BOOLEAN] } :
          n \in 0..(MaxRows + 1) }

ReadInit ==
  /\ ledger \in ReadLedgers
  /\ id_column = DefaultIdField
  /\ page_log = NoPageLog
  /\ sellsy_id_field = DefaultIdField
  /\ config = RequiredConfig
  /\ exit_status = "none"
  /\ sellsy = get_access_token(NewSellsyAPI(NoToken, NoToken),
                               [k |-> "ok", expires_in |-> 3600, refresh |-> FALSE]).self
  /\ ApiIdle
  /\ entities = [r \in RowIds |-> 0]
  /\ pc = "sample"
  /\ records_to_sync = <<>>
  /\ idx = 0
  /\ row = NoRow
  /\ sync_result = <<>>
  /\ run_log = <<>>
  /\ synced = {}
  /\ trace = TRUE
  /\ expires_ins = RunExpiresIns
  /\ ncalls = 0

ReadNext == SampleRecords \/ FetchRecords

ReadSpec == ReadInit /\ [][ReadNext]_vars

(***************************************************************************)
(* The mapper on its own: main at line 483 with one candidate record whose *)
(* fields are drawn from MapperInputs, about to call synchronize_client    *)
(***************************************************************************)
\* the field is not in the row
Absent == [t |-> "absent", s |-> <<>>, n |-> 0]

\* the row holding the given values, without the absent fields
RowWith(nom_entreprise, nom, prenom, email, telephone, ville) ==
  LET all == (F_Entreprise :> nom_entreprise) @@ ("Nom" :> nom) @@ ("Prenom" :> prenom) @@
             ("Email" :> email) @@ ("Telephone" :> telephone) @@ ("Ville" :> ville) @@
             CommonFields
  IN [f \in { g \in DOMAIN all : all[g] # Absent } |-> all[f]]

MapperInputs ==
  { RowWith(o, n, p, e, t, v) :
      o \in {Absent, StrV(<<" ">>), Chars("a", "a")},
      n \in {Absent, Chars("a", "x")},
      p \in {Absent, StrV(<<>>), StrV(<<" ">>), Chars("x", "a")},
      e \in {Absent, StrV(<<>>), Chars("a", "x"), StrV(<<"a", "@", "x">>),
             StrV(<<"a", "@", "x", "@">>)},
      t \in {Absent, NumV(0), Chars("0", "1")},
      v \in {Absent, Chars("x", "a")} }

MapperInit ==
  /\ \E f \in MapperInputs :
       /\ ledger = << [id |-> RecIds[1], fields |-> f] >>
       /\ records_to_sync = ledger
  /\ id_column = DefaultIdField
  /\ page_log = NoPageLog
  /\ sellsy_id_field = DefaultIdField
  /\ config = RequiredConfig
  /\ exit_status = "none"
  /\ sellsy = get_access_token(NewSellsyAPI(NoToken, NoToken),
                               [k |-> "ok", expires_in |-> 3600, refresh |-> FALSE]).self
  /\ ApiIdle
  /\ entities = [r \in RowIds |-> 0]
  /\ pc = "row"
  /\ idx = 1
  /\ row = NoRow
  /\ sync_result = <<>>
  /\ run_log = <<>>
  /\ synced = {}
  /\ trace = FALSE
  /\ expires_ins = RunExpiresIns
  /\ ncalls = 0

MapperSpec == MapperInit /\ [][BeginRow]_vars

(***************************************************************************)
(* sellsy_sync_script.py: synchroniser_airtable_vers_sellsy                *)
(***************************************************************************)
IsDigitChar(c) == c \in {"0", "1", "2", "3", "4", "5", "6", "7", "8", "9"}

DigitValue(c) == CHOOSE d \in 0..9 : Digit(d) = c

RECURSIVE DigitsValue(_)
DigitsValue(s) ==
  IF s = <<>> THEN 0 ELSE 10 * DigitsValue(SubSeq(s, 1, Len(s) - 1)) + DigitValue(s[Len(s)])

\* int(v) for an int, or a str of digits with blanks around it; anything
\* else raises (ValueError for a str, TypeError for None)
py_int(v) ==
  IF v.t = "num" THEN [raises |-> FALSE, n |-> v.n]
  ELSE IF v.t = "str" /\ Strip(v.s) # <<>> /\ \A i \in 1..Len(Strip(v.s)) : IsDigitChar(Strip(v.s)[i])
  THEN [raises |-> FALSE, n |-> DigitsValue(Strip(v.s))]
  ELSE [raises |-> TRUE, n |-> 0]

\* entries of run_log in the legacy script: creer_client or
\* mettre_a_jour_client has returned (ok: status success; id: the entity
\* updated), table.update was called (ok: it did not raise), the handler of
\* line 175 has logged an exception raised before any request
LegacyEntry(k, rec, id, value, ok) ==
  [k |-> k, row |-> rec, endpoint |-> "", field |-> IF k = "patch" THEN "ID_Sellsy" ELSE "",
   value |-> value, ok |-> ok, id |-> id]

\* what the registry answers to Client.create or Client.update: status
\* success, another status, or a failed request (creer_client returns None)
LegacyAnswers == {"success", "error", "none"}

\* the values of ID_Sellsy in the tables the legacy script is run on: the
\* field absent, empty, an identifier as text or as number, the text "None"
LegacyIdValues ==
  { NullV, StrV(<<>>), Chars("4", "2"), NumV(42), StrV(<<"N", "o", "n", "e">>) }

LegacyFields(v) == IF v = NullV THEN PersonFields ELSE ("ID_Sellsy" :> v) @@ PersonFields

LegacyLedgers ==
  UNION { { [i \in 1..n |-> [id |-> RecIds[i], fields |-> LegacyFields(vs[i])]] :
              vs \in [1..n -> LegacyIdValues] } :
          n \in 1..MaxRows }

LegacyInit ==
  /\ ledger \in LegacyLedgers
  /\ id_column = DefaultIdField
  /\ page_log = NoPageLog
  /\ sellsy_id_field = DefaultIdField
  /\ config = RequiredConfig
  /\ exit_status = "none"
  /\ sellsy = NewSellsyAPI(NoToken, NoToken)
  /\ ApiIdle
  /\ entities = [r \in RowIds |-> 0]
  /\ pc = "legacy_all"
  /\ records_to_sync = <<>>
  /\ idx = 0
  /\ row = NoRow
  /\ sync_result = <<>>
  /\ run_log = <<>>
  /\ synced = {}
  /\ trace = FALSE
  /\ expires_ins = RunExpiresIns
  /\ ncalls = 0

\* lines 144-152: enregistrements = table.all(), which raises out of the
\* function when the ledger cannot be read
LegacyAll ==
  /\ pc = "legacy_all"
  /\ \E read \in BOOLEAN :
       IF read
       THEN /\ records_to_sync' = ledger
            /\ idx' = 1
            /\ pc' = "legacy_row"
       ELSE /\ pc' = "legacy_end"
            /\ UNCHANGED <<records_to_sync, idx>>
  /\ UNCHANGED <<sellsy, apiVars, regVars, ledgerVars, config, exit_status, sellsy_id_field,
                 row, sync_result, run_log, synced, envVars, ncalls>>

\* line 162: if not id_sellsy
legacy_is_new(id_sellsy) == ~Truthy(id_sellsy)

\* lines 154-176: one iteration of the loop
LegacyRow ==
  /\ pc = "legacy_row"
  /\ LET enregistrement == records_to_sync[idx]
         rec == enregistrement.id
         id_sellsy == Get(enregistrement.fields, "ID_Sellsy", NullV)
         nouvel_id_client == fresh_id(entities, rec)
     IN IF legacy_is_new(id_sellsy)
        THEN \E ans \in LegacyAnswers, updated \in BOOLEAN :
               IF ans = "success"
               THEN /\ entities[rec] < MaxEntities
                    /\ entities' = [entities EXCEPT ![rec] = @ + 1]
                    /\ run_log' = run_log \o
                         << LegacyEntry("create", rec, 0, <<>>, TRUE),
                            LegacyEntry("patch", rec, 0, Digits(nouvel_id_client), updated) >>
                    /\ ledger' = IF updated
                                 THEN Patched(ledger, rec, "ID_Sellsy", NumV(nouvel_id_client))
                                 ELSE ledger
               ELSE /\ ~updated
                    /\ run_log' = Append(run_log, LegacyEntry("create", rec, 0, <<>>, FALSE))
                    /\ UNCHANGED <<entities, ledger>>
        ELSE IF py_int(id_sellsy).raises
        THEN /\ run_log' = Append(run_log, LegacyEntry("error", rec, 0, <<>>, FALSE))
             /\ UNCHANGED <<entities, ledger>>
        ELSE \E ans \in LegacyAnswers :
               /\ run_log' = Append(run_log, LegacyEntry("update", rec, py_int(id_sellsy).n, <<>>,
                                                        ans = "success"))
               /\ UNCHANGED <<entities, ledger>>
  /\ IF idx < Len(records_to_sync)
     THEN idx' = idx + 1 /\ pc' = "legacy_row"
     ELSE pc' = "legacy_end" /\ UNCHANGED idx
  /\ UNCHANGED <<sellsy, apiVars, id_column, page_log, config, exit_status, sellsy_id_field,
                 records_to_sync, row, sync_result, synced, envVars, ncalls>>

LegacyNext == LegacyAll \/ LegacyRow

LegacySpec == LegacyInit /\ [][LegacyNext]_vars

(***************************************************************************)
(* Properties of main (checked under Spec, FairSpec and FilterSpec)        *)
(***************************************************************************)
LogIdx == 1..Len(run_log)

IsSync(e) == e.k = "sync"
IsPatch(e) == e.k = "patch"
IsEntityRequest(e) == e.k = "api" /\ IsEntityPost(e.endpoint)
\* the entity request returned success with an identifier
EntityCreated(e) == IsEntityRequest(e) /\ e.ok /\ e.id # 0
Stopped == \E i \in LogIdx : run_log[i].k = "stop"

\* entries i < j of run_log belong to the same iteration of the loop
SameIteration(i, j) == \A m \in (i + 1)..j : ~IsSync(run_log[m])

\* the fields of the ledger row with identifier r
LedgerFields(r) == (CHOOSE rec \in { ledger[i] : i \in 1..Len(ledger) } : rec.id = r).fields

\* C1: across at most one registry entity is ever created for a
\* ledger row
C1_AtMostOneEntity == \A r \in RowIds : entities[r] <= 1

\* C2: in a run, update_record is called for a row if and only if the entity
\* request for that row returned success with an identifier in the same
\* iteration, and the value written is that identifier as a string; a row
\* whose creation failed gets no write-back
C2_WriteBackIffCreated ==
  /\ \A j \in LogIdx :
       IsPatch(run_log[j]) =>
         \E i \in 1..(j - 1) :
           /\ EntityCreated(run_log[i])
           /\ run_log[i].row = run_log[j].row
           /\ SameIteration(i, j)
           /\ run_log[j].value = Digits(run_log[i].id)
  /\ \A i \in LogIdx :
       EntityCreated(run_log[i]) =>
         \/ \E j \in (i + 1)..Len(run_log) :
              IsPatch(run_log[j]) /\ run_log[j].row = run_log[i].row /\ SameIteration(i, j)
         \/ pc \in {"address", "contact", "explicit", "wrapper"} /\ SameIteration(i, Len(run_log))
         \/ Stopped

\* a run in which the first row was created and written back and the
\* creation of the next row failed, so that it got no write-back
C2_Witness ==
  /\ pc = "off" /\ ~Stopped
  /\ \E i, j, m \in LogIdx :
       /\ i < j /\ j < m
       /\ EntityCreated(run_log[i]) /\ IsPatch(run_log[j])
       /\ run_log[j].row = run_log[i].row
       /\ IsEntityRequest(run_log[m]) /\ ~run_log[m].ok
       /\ run_log[m].row # run_log[i].row
       /\ \A n \in LogIdx : IsPatch(run_log[n]) => run_log[n].row = run_log[i].row

\* the claim's condition on the value v of the back-reference field: empty
\* (whitespace-only included) or the text "none" in any case
ClaimedEmpty(v) ==
  \/ v.t = "null"
  \/ v.t = "str" /\ Strip(v.s) = <<>>
  \/ v.t = "str" /\ Lower(v.s) = <<"n", "o", "n", "e">>

\* the same, with the values Python holds false (0) counted as empty and the
\* surrounding whitespace ignored in the comparison with "none"
AmendedEmpty(v) ==
  \/ v.t = "null"
  \/ v.t = "num" /\ v.n = 0
  \/ v.t = "str" /\ Strip(v.s) = <<>>
  \/ v.t = "str" /\ Lower(Strip(v.s)) = <<"n", "o", "n", "e">>

InCandidates(rec) == \E i \in 1..Len(records_to_sync) : records_to_sync[i].id = rec.id

\* the filter has run on the fetched table
Filtered == pc = "row" /\ idx = 1

\* C3 as stated: a fetched row is a candidate if and only if the detected
\* field is absent from it, or its value is empty (whitespace-only
\* included), or its value equals "none" compared case-insensitively
C3_CandidateIffEmptyOrNone ==
  Filtered =>
    \A i \in 1..Len(ledger) :
      InCandidates(ledger[i]) <=>
        \/ sellsy_id_field \notin DOMAIN ledger[i].fields
        \/ ClaimedEmpty(ledger[i].fields[sellsy_id_field])

\* C3 amended: a fetched row is a candidate if and only if the detected field
\* is absent from it, or its value is false in Python (empty text, 0, null),
\* or its text without the surrounding whitespace is empty or equals "none"
\* compared case-insensitively
C3_CandidateIffFalsyOrNone ==
  Filtered =>
    \A i \in 1..Len(ledger) :
      InCandidates(ledger[i]) <=>
        \/ sellsy_id_field \notin DOMAIN ledger[i].fields
        \/ AmendedEmpty(ledger[i].fields[sellsy_id_field])

\* the filter kept a row holding "None" and dropped none it should keep:
\* both rows of the table are candidates
C3_Witness ==
  /\ Filtered
  /\ Len(records_to_sync) = 2
  /\ sellsy_id_field \in DOMAIN records_to_sync[2].fields
  /\ records_to_sync[2].fields[sellsy_id_field] = StrV(<<"N", "o", "n", "e">>)

\* this step sends the entity request of row r
CreationInvoked(r) ==
  /\ pc = "row"
  /\ record.id = r
  /\ Len(run_log') = Len(run_log) + 2
  /\ IsEntityRequest(run_log'[Len(run_log')])

\* C4: once the entity of row r was created and its identifier written back,
\* no later run invokes entity creation for r
C4_NoCreationAfterWriteBack == [][\A r \in synced : ~CreationInvoked(r)]_vars

\* the mapper rejects the row: a required field is missing or empty, or the
\* email has no "@"
MapperRejects(fields) ==
  LET company == F_Entreprise \in DOMAIN fields /\ Truthy(fields[F_Entreprise])
      required == IF company THEN RequiredCompany ELSE RequiredPerson
  IN \/ \E i \in 1..Len(required) :
          required[i] \notin DOMAIN fields \/ ~Truthy(fields[required[i]])
     \/ ~Contains(Str(fields["Email"]), "@")

C5_NoRequestNoWrite ==
  \A i \in LogIdx :
    (run_log[i].k \in {"api", "patch"} /\ run_log[i].row # "") =>
      ~MapperRejects(LedgerFields(run_log[i].row))

C5_Continues ==
  (pc = "sleep" /\ MapperRejects(record.fields) /\ idx < Len(records_to_sync)) =>
    \/ pc' = "row" /\ idx' = idx + 1
    \/ Stopped'

\* C5: for a candidate row the mapper rejects, no registry request and no
\* ledger write is made, and processing continues with the next row
C5_RejectedRowSkipped == []C5_NoRequestNoWrite /\ [][C5_Continues]_vars

\* a row rejected for a missing field and a row rejected for its email were
\* both skipped, the second after the first, and the run ended
C5_Witness ==
  /\ pc = "off" /\ ~Stopped
  /\ Len(run_log) >= 3
  /\ \E i \in LogIdx : i + 1 \in LogIdx
       /\ IsSync(run_log[i]) /\ IsSync(run_log[i + 1])
       /\ LedgerFields(run_log[i].row) = MissingFields
       /\ LedgerFields(run_log[i + 1].row) = BadEmailFields

\* the identifiers of the rows the filter of this run kept
Candidates ==
  UNION { { run_log[i].value[m] : m \in 1..Len(run_log[i].value) } :
            i \in { n \in LogIdx : run_log[n].k = "filter" } }

Processed(r) == \E i \in LogIdx : IsSync(run_log[i]) /\ run_log[i].row = r

HasOrganizationName(fields) ==
  F_Entreprise \in DOMAIN fields /\ Strip(Str(fields[F_Entreprise])) # <<>>

IsRowRequest(e) == e.k = "api" /\ e.row # ""

\* C17: the entity request of a row goes to the companies endpoint if and
\* only if the row's organization name is non-empty after trimming, and to
\* the individuals endpoint otherwise; the address request goes to the
\* sub-resource of the same kind; a contact request is made only for
\* organizations
C17_EndpointFollowsKind ==
  \A i \in LogIdx :
    IsRowRequest(run_log[i]) =>
      LET org == HasOrganizationName(LedgerFields(run_log[i].row))
          ep == run_log[i].endpoint
      IN \/ ep = (IF org THEN "POST /companies" ELSE "POST /individuals")
         \/ ep = (IF org THEN "POST /companies/{id}/addresses"
                  ELSE "POST /individuals/{id}/addresses")
         \/ ep = "POST /companies/{id}/contacts" /\ org

\* in one run an individual whose organization name is blank got its entity
\* and address requests, and a company its entity, address and contact
\* requests
C17_Witness ==
  \E i, j \in LogIdx :
    /\ run_log[i].endpoint = "POST /individuals/{id}/addresses"
    /\ LedgerFields(run_log[i].row) = BlankOrgFields
    /\ run_log[j].endpoint = "POST /companies/{id}/contacts"
    /\ HasOrganizationName(LedgerFields(run_log[j].row))

(***************************************************************************)
(* Properties of the mapper (checked under MapperSpec)                     *)
(***************************************************************************)
\* the mapper has returned for the record
Mapped == pc # "row"

Range(q) == { q[i] : i \in 1..Len(q) }

\* the fields required for the kind detected for the row that are absent
\* from it or empty
ClaimedMissing(fields) ==
  LET required == IF HasOrganizationName(fields) THEN RequiredCompany ELSE RequiredPerson
  IN { f \in Range(required) : f \notin DOMAIN fields \/ fields[f] = StrV(<<>>) }

\* C18: a row missing (absent or empty) one or more of the fields required
\* for its detected kind is rejected, and the rejection lists every such
\* field, not only the first
C18_RejectionListsEveryMissing ==
  (Mapped /\ ClaimedMissing(record.fields) # {}) =>
     /\ ~row.ok
     /\ ClaimedMissing(record.fields) \subseteq Range(row.missing)

\* a company row rejected for three missing fields
C18_Witness ==
  /\ Mapped
  /\ HasOrganizationName(record.fields)
  /\ Cardinality(ClaimedMissing(record.fields)) = 3
  /\ Len(row.missing) = 3

\* the row holds an email without "@"
HasInvalidEmail(fields) ==
  /\ "Email" \in DOMAIN fields
  /\ fields["Email"] # StrV(<<>>)
  /\ ~Contains(Str(fields["Email"]), "@")

\* C19: for a row with missing required fields and a present email without
\* "@", the rejection names every missing field and the invalid email
C19_RejectionListsMissingAndEmail ==
  (Mapped /\ ClaimedMissing(record.fields) # {} /\ HasInvalidEmail(record.fields)) =>
     /\ ~row.ok
     /\ ClaimedMissing(record.fields) \subseteq Range(row.missing)
     /\ row.invalid_email

CountAt(email) == Cardinality({ i \in 1..Len(email) : email[i] = "@" })

\* C20: the email of every payload the mapper accepts holds exactly one "@"
C20_AcceptedEmailOneAt == (Mapped /\ row.ok) => CountAt(row.email) = 1

\* the value the payload holds for a field of the row: the row's value as
\* text, trimmed
PayloadValue(fields, f) == Strip(Str(fields[f]))

\* C21: in every payload the mapper accepts, every field required for its
\* kind is non-empty after trimming
C21_AcceptedFieldsNonEmpty ==
  (Mapped /\ row.ok) =>
     LET required == IF row.type = "corporation" THEN RequiredCompany ELSE RequiredPerson
     IN \A f \in Range(required) : PayloadValue(record.fields, f) # <<>>

\* the configuration items the program needs
ClaimedRequired ==
  { "AIRTABLE_API_KEY", "AIRTABLE_BASE_ID", "AIRTABLE_TABLE_NAME",
    "SELLSY_CLIENT_ID", "SELLSY_CLIENT_SECRET" }

ConfigIncomplete == \E item \in ClaimedRequired : item \notin config

\* C28: when a required configuration item is missing, no network request
\* is made: the run stops at the configuration check, no token is obtained,
\* no ledger read, registry request or ledger write is recorded, no entity
\* exists and no call is in progress
C28_NoRequestWithoutConfig ==
  ConfigIncomplete =>
     /\ pc \in {"off", "check"}
     /\ sellsy = NewSellsyAPI(NoToken, NoToken)
     /\ api_pc = "idle"
     /\ \A i \in LogIdx : run_log[i].k = "stop"
     /\ \A r \in RowIds : entities[r] = 0
     /\ synced = {}

\* a run without the client secret has ended by itself
C28_Witness ==
  /\ config = ClaimedRequired \ {"SELLSY_CLIENT_SECRET"}
  /\ pc = "off"
  /\ exit_status = "0"

\* C29: when a required configuration item is missing, the process ends
\* with a non-zero exit status
C29_NonZeroExitWithoutConfig ==
  (ConfigIncomplete /\ pc = "off" /\ exit_status # "none") => exit_status # "0"

\* the ledger row r holds the text v in field f
LedgerHolds(r, f, v) ==
  f \in DOMAIN LedgerFields(r) /\ LedgerFields(r)[f] = StrV(v)

\* the write-back of a row is logged as done exactly when the ledger took it
C24_FailureFlagged ==
  \A j \in LogIdx :
    IsPatch(run_log[j]) =>
      /\ \E i \in 1..(j - 1) :
           EntityCreated(run_log[i]) /\ run_log[i].row = run_log[j].row
      /\ run_log[j].ok <=> LedgerHolds(run_log[j].row, run_log[j].field, run_log[j].value)

LastPatchFailed ==
  /\ run_log # <<>>
  /\ IsPatch(run_log[Len(run_log)])
  /\ run_log[Len(run_log)].row = record.id
  /\ ~run_log[Len(run_log)].ok

C24_Continues ==
  (pc = "sleep" /\ LastPatchFailed /\ idx < Len(records_to_sync)) =>
    \/ pc' = "row" /\ idx' = idx + 1
    \/ Stopped'

\* C24: when the write-back fails for a row whose entity was created, the
\* following rows are still processed, and the row is logged as created with
\* the write-back failure flagged, unlike a row that was written back
C24_WriteBackFailureNonFatal == []C24_FailureFlagged /\ [][C24_Continues]_vars

\* the write-back of the first row failed, the second row was then created
\* and written back, and the run ended
C24_Witness ==
  /\ pc = "off" /\ ~Stopped
  /\ \E i, j \in LogIdx :
       /\ i < j
       /\ IsPatch(run_log[i]) /\ ~run_log[i].ok
       /\ IsPatch(run_log[j]) /\ run_log[j].ok
       /\ run_log[i].row # run_log[j].row

\* create_client and synchronize_client have finished for a created entity
FollowUpsDone == pc \in {"wrapper", "sleep"} /\ row.ok /\ row.client_id # 0

\* every follow-up request of create_client succeeded
FullSuccess ==
  row.address_result /\ (row.type = "person" \/ row.contact_result)

\* a warning about a failed address or contact creation is logged for the row
\* (sellsy_api.py 383, 391; main.py 286)
FollowUpWarned ==
  \/ ~row.address_result
  \/ row.type # "person" /\ ~row.contact_result
  \/ ~explicit_address_requested

\* C25: when the entity is created and the address or contact creation
\* fails, the identifier is still returned for the write-back, and the row is
\* reported with a warning that a fully successful row does not get
C25_PartialSuccessDistinct ==
  FollowUpsDone =>
    /\ pc = "wrapper" => sync_result = Digits(row.client_id)
    /\ FollowUpWarned <=> ~FullSuccess

\* the ledger before and after a step differ in at most the field f of the
\* row r
OnlyFieldChanged(old, new, r, f) ==
  /\ Len(new) = Len(old)
  /\ \A i \in 1..Len(old) :
       /\ new[i].id = old[i].id
       /\ old[i].id # r => new[i] = old[i]
       /\ DOMAIN new[i].fields \subseteq DOMAIN old[i].fields \cup {f}
       /\ \A g \in DOMAIN old[i].fields :
            g \in DOMAIN new[i].fields /\ (g # f => new[i].fields[g] = old[i].fields[g])

\* the entity of row r was created in this run
CreatedInRun(r) == \E i \in LogIdx : EntityCreated(run_log[i]) /\ run_log[i].row = r

C26_LedgerFrame ==
  ledger' # ledger =>
    /\ pc = "wrapper"
    /\ CreatedInRun(record.id)
    /\ OnlyFieldChanged(ledger, ledger', record.id, sellsy_id_field)

PatchCount(r) == Cardinality({ j \in LogIdx : IsPatch(run_log[j]) /\ run_log[j].row = r })

\* the iteration of the loop for row r is over
RowDone(r) == pc \in {"sleep", "off"} \/ run_log[Len(run_log)].row # r

C26_OneAttempt ==
  ~Stopped =>
    \A r \in RowIds :
      /\ PatchCount(r) <= 1
      /\ PatchCount(r) = 1 => CreatedInRun(r)
      /\ (CreatedInRun(r) /\ RowDone(r)) => PatchCount(r) = 1
      /\ \A j, m \in LogIdx :
           (IsPatch(run_log[j]) /\ IsPatch(run_log[m])) =>
             /\ run_log[j].field = run_log[m].field
             /\ pc # "off" => run_log[j].field = sellsy_id_field

\* C26: during a run, the ledger only changes by an update of the detected
\* field of a row whose entity was created in the run, with exactly one
\* update attempt for each such row; no other field or row is written
C26_OnlyBackReferenceWritten == []C26_OneAttempt /\ [][C26_LedgerFrame]_vars

\* a run over two rows wrote the identifier into the first and skipped the
\* second, which the mapper rejected
C26_Witness ==
  /\ pc = "off" /\ ~Stopped
  /\ \E i, j \in LogIdx :
       /\ i < j
       /\ IsPatch(run_log[i]) /\ run_log[i].ok
       /\ IsSync(run_log[j]) /\ run_log[j].row # run_log[i].row
       /\ PatchCount(run_log[j].row) = 0
       /\ MapperRejects(LedgerFields(run_log[j].row))

\* the candidates the filter kept in this run, in the order it kept them
CandidateSeq ==
  IF \E i \in LogIdx : run_log[i].k = "filter"
  THEN run_log[CHOOSE i \in LogIdx : run_log[i].k = "filter"].value
  ELSE <<>>

PosIn(seq, x) == CHOOSE i \in 1..Len(seq) : seq[i] = x

LedgerIds == [i \in 1..Len(ledger) |-> ledger[i].id]

\* C30: the candidates are processed one at a time in the order the ledger
\* returned them: every request and the write-back of a candidate precede
\* every request of the next one
C30_SequentialInLedgerOrder ==
  ~Stopped =>
    /\ \A a, b \in 1..Len(CandidateSeq) :
         a < b => PosIn(LedgerIds, CandidateSeq[a]) < PosIn(LedgerIds, CandidateSeq[b])
    /\ \A i, j \in LogIdx :
         (i < j /\ run_log[i].row # "" /\ run_log[j].row # "") =>
           PosIn(CandidateSeq, run_log[i].row) <= PosIn(CandidateSeq, run_log[j].row)

\* both rows of a run were created and written back, one after the other
C30_Witness ==
  /\ pc = "off" /\ ~Stopped
  /\ \E i, j \in LogIdx :
       /\ i < j
       /\ IsPatch(run_log[i]) /\ run_log[i].row = CandidateSeq[1]
       /\ IsEntityRequest(run_log[j]) /\ run_log[j].row = CandidateSeq[2]

\* the calls of create_client for row r in this run: each sends one entity
\* request through request_api
CreateCalls(r) == { j \in LogIdx : IsEntityRequest(run_log[j]) /\ run_log[j].row = r }

\* C33: within one run of main, create_client is invoked at most once for a
\* ledger record id
C33_OneCreateCallPerRecord ==
  \A r \in RowIds : Cardinality(CreateCalls(r)) <= 1

\* a run over two candidates has ended with one call of create_client for each
C33_Witness ==
  /\ pc = "off" /\ ~Stopped
  /\ Cardinality({ r \in RowIds : Cardinality(CreateCalls(r)) = 1 }) = 2

\* one step of the run adds at most one entity for a row
C34_AtMostOneNew == \A r \in RowIds : entities'[r] <= entities[r] + 1

\* C34: one call of create_client leaves at most one new entity in the
\* registry, also when attempts of the POST time out or are answered 5xx
\* and the retry loop sends the POST again
C34_OneEntityPerCreateCall == [][C34_AtMostOneNew]_vars

\* the request of the startup test and its answer
IsTestRequest(e) == e.k = "api" /\ e.row = "" /\ e.endpoint = "GET /companies"

\* the run has passed the startup test: it reads the ledger, creates entities
\* or writes back
PastStartupTest ==
  \/ pc \in {"sample", "fetch", "row", "address", "contact", "explicit", "wrapper", "sleep"}
  \/ \E i \in LogIdx : run_log[i].k \in {"filter", "sync", "patch"} \/ run_log[i].row # ""

\* C38: when the startup authentication test fails (no token obtained, or
\* the test request fails), the run ends at once: no ledger row is read, no
\* entity created and nothing written to the ledger
C38_NothingAfterFailedTest ==
  /\ \A i \in LogIdx :
       (IsTestRequest(run_log[i]) /\ ~run_log[i].ok) => i = Len(run_log) /\ pc = "off"
  /\ PastStartupTest => run_log # <<>> /\ IsTestRequest(run_log[1]) /\ run_log[1].ok

\* a run has ended on the failure of the test request
C38_Witness ==
  /\ pc = "off" /\ exit_status = "0"
  /\ run_log # <<>>
  /\ IsTestRequest(run_log[Len(run_log)]) /\ ~run_log[Len(run_log)].ok

\* create_address_for_client has returned for a created entity
ExplicitAddressDone == pc \in {"wrapper", "sleep"} /\ row.ok /\ row.client_id # 0

\* C31: create_address_for_client sends an address request for the client
\* and returns True when the registry accepts it and False when it refuses
\* it: its result is the registry's answer to a request that was sent
C31_AddressResultFromRegistry ==
  ExplicitAddressDone => row.explicit \in {"accepted", "refused"}

IsAddressRequest(e) ==
  e.k = "api" /\ e.endpoint \in {AddressEndpoint("person"), AddressEndpoint("corporation")}

AddressRequests(r) == { j \in LogIdx : IsAddressRequest(run_log[j]) /\ run_log[j].row = r }

Fetched == pc \notin {"sample", "fetch"}
Exchanges == page_log.log
AllPagesOk == \A i \in 1..Len(Exchanges) : Exchanges[i].ok

\* the rows of the first n pages received, in order
RECURSIVE PagesUpTo(_)
PagesUpTo(n) == IF n = 0 THEN <<>> ELSE PagesUpTo(n - 1) \o Exchanges[n].rows

\* C22: when every page request succeeds, get_records without limit sends
\* its first request without cursor, each later request with the cursor of
\* the answer before it, stops at the first answer without cursor and
\* returns the rows of all pages in the ledger's order
C22_CursorChainConcatenates ==
  (Fetched /\ AllPagesOk) =>
     /\ Exchanges # <<>>
     /\ Exchanges[1].sent = 0
     /\ \A i \in 2..Len(Exchanges) :
          Exchanges[i - 1].cursor # 0 /\ Exchanges[i].sent = Exchanges[i - 1].cursor
     /\ Exchanges[Len(Exchanges)].cursor = 0
     /\ page_log.records = PagesUpTo(Len(Exchanges))
     /\ page_log.records = ledger

\* a fetch of three pages, all received
C22_Witness ==
  /\ Fetched /\ AllPagesOk
  /\ Len(Exchanges) = 3
  /\ Len(page_log.records) = 3

\* C23: when a page request fails after one or more pages were read,
\* get_records returns the rows of the pages read so far
C23_PartialRowsReturned ==
  (Fetched /\ Len(Exchanges) >= 2 /\ ~Exchanges[Len(Exchanges)].ok) =>
     page_log.records = PagesUpTo(Len(Exchanges) - 1)

\* C35: without a limit, get_records returns the rows of all pages or the
\* empty list, never a part of the table; a run whose full read failed on a
\* page ends with no candidate, no entity created and nothing written
C35_AllRowsOrNone ==
  Fetched =>
     /\ page_log.records \in {ledger, <<>>}
     /\ ~AllPagesOk =>
          /\ page_log.records = <<>>
          /\ pc = "off"
          /\ \A i \in 1..Len(run_log) : run_log[i].k = "filter" /\ run_log[i].value = <<>>
          /\ \A r \in RowIds : entities[r] = 0
          /\ synced = {}

\* the request of the third page failed after two pages were read
C35_Witness ==
  /\ Fetched
  /\ Len(Exchanges) = 3
  /\ Exchanges[1].ok /\ Exchanges[1].rows # <<>> /\ Exchanges[2].ok
  /\ ~Exchanges[3].ok
  /\ page_log.records = <<>>
  /\ pc = "off"

\* the sample read (get_records(None, 1)) has returned and the field is chosen
Sampled == pc = "fetch"

\* the aliases of the list that name a field of the first sampled row
AliasMatches ==
  { i \in 1..Len(possible_id_fields) :
      possible_id_fields[i] \in DOMAIN page_log.records[1].fields }

\* C27: the field detected is the first name of the alias list, in list
\* order, that is a field of the first sampled row, and "ID_Sellsy" when no
\* alias matches or no sample row is available
C27_FirstAliasOrDefault ==
  Sampled =>
     sellsy_id_field =
       IF page_log.records = <<>> \/ AliasMatches = {} THEN "ID_Sellsy"
       ELSE possible_id_fields[CHOOSE i \in AliasMatches : \A j \in AliasMatches : i <= j]

\* the first row sampled carries two aliases and the one listed first, which
\* is not the default, was chosen
C27_Witness ==
  /\ Sampled
  /\ page_log.records # <<>>
  /\ DOMAIN page_log.records[1].fields \cap SampledAliases = {"Sellsy ID", "sellsy_id"}
  /\ sellsy_id_field = "Sellsy ID"

(***************************************************************************)
(* Properties of the legacy script (checked under LegacySpec)              *)
(***************************************************************************)
\* the loop has finished with the record at position p of enregistrements
LegacyDone(p) == pc = "legacy_end" \/ (pc = "legacy_row" /\ p < idx)

\* the registry operations attempted for record r
LegacyOps(r) ==
  { j \in LogIdx : run_log[j].k \in {"create", "update"} /\ run_log[j].row = r }

\* ID_Sellsy is absent or empty
IdAbsentOrEmpty(fields) ==
  "ID_Sellsy" \notin DOMAIN fields \/ fields["ID_Sellsy"] = StrV(<<>>)

C32_OneOperation ==
  \A p \in 1..Len(records_to_sync) :
    LegacyDone(p) =>
      LET r == records_to_sync[p].id
          fields == records_to_sync[p].fields
      IN /\ Cardinality(LegacyOps(r)) = 1
         /\ \A j \in LegacyOps(r) :
              /\ run_log[j].k = "create" <=> IdAbsentOrEmpty(fields)
              /\ run_log[j].k = "update" =>
                   Digits(run_log[j].id) = Strip(Str(fields["ID_Sellsy"]))

C32_WriteAfterCreate ==
  \A j \in LogIdx :
    run_log[j].k = "patch" =>
      /\ j > 1
      /\ run_log[j - 1].k = "create" /\ run_log[j - 1].ok
      /\ run_log[j - 1].row = run_log[j].row

C32_Continues ==
  (pc = "legacy_row" /\ idx < Len(records_to_sync)) => pc' = "legacy_row" /\ idx' = idx + 1

\* C32: in the legacy script, exactly one registry operation is attempted
\* for every ledger record, a create if and only if ID_Sellsy is absent or
\* empty and otherwise an update of the entity with that id; the ledger is
\* written only after a create that returned status success, and the loop
\* goes on to the next record whatever happened to the current one
C32_LegacyOneOperationPerRecord ==
  [](C32_OneOperation /\ C32_WriteAfterCreate) /\ [][C32_Continues]_vars

(***************************************************************************)
(* Properties of the token functions (checked under TokenSpec)             *)
(***************************************************************************)
\* the step is a token request that failed: the function returned False
FailedTokenRequest ==
  /\ Len(call_log') = Len(call_log) + 1
  /\ call_log'[Len(call_log')].k # "ok"

C37_TokensKept == FailedTokenRequest => sellsy' = sellsy

\* C37: a token request that fails (non-200, malformed body, no answer)
\* leaves the access token, the refresh token and the expiry held unchanged
C37_FailedRequestKeepsTokens == [][C37_TokensKept]_vars

(***************************************************************************)
(* Properties of request_api (checked under ApiSpec)                       *)
(***************************************************************************)
IsReg(e) == e.ev = "reg"
IsTokenReq(e) == e.ev = "token"
RegRequests == SelectSeq(call_log, IsReg)
TokenRequests == SelectSeq(call_log, IsTokenReq)
Returned == api_pc = "ret"

\* the case of C7: the call has returned, the token was valid at every
\* attempt (no token request was needed) and every answer was 503
AllUnavailable ==
  /\ Returned
  /\ TokenRequests = <<>>
  /\ RegRequests # <<>>
  /\ \A i \in 1..Len(RegRequests) : RegRequests[i].status = 503

\* C7: against a registry that answers 503 to every request, a call made
\* with a valid token sends exactly 3 requests, at least 2s and then at
\* least 4s apart, and returns an error (None)
C7_RetryBound ==
  AllUnavailable =>
    /\ Len(RegRequests) = 3
    /\ RegRequests[2].at - RegRequests[1].at >= 2
    /\ RegRequests[3].at - RegRequests[2].at >= 4
    /\ api_result = NoneResult

C7_Witness == AllUnavailable /\ Len(RegRequests) = 3 /\ RegRequests[3].at = 6

\* indexes in call_log of the requests answered 401
Unauthorized == { i \in 1..Len(call_log) : IsReg(call_log[i]) /\ call_log[i].status = 401 }

\* C8: a 401 triggers exactly one refresh and one retry; a second 401 ends
\* the call, so nothing (no refresh, no request) follows the second 401
C8_SecondUnauthorizedTerminal ==
  \A i, j \in Unauthorized : i < j => j = Len(call_log)

\* C9: a token is presented to the registry only while more than the safety
\* margin (60s) of its lifetime is left
C9_NeverInsideMargin ==
  \A i \in 1..Len(call_log) : IsReg(call_log[i]) => call_log[i].life > SafetyMargin

\* the case of C10: at entry no token or no expiry was known, or the
\* current instant was at or past expiry - 60s
ExpiredAtEntry == ~entry_token.known \/ entry_token.life <= SafetyMargin

FirstReg == CHOOSE i \in 1..Len(call_log) : IsReg(call_log[i]) /\ \A j \in 1..(i - 1) : ~IsReg(call_log[j])

\* C10: a call entered with an expired or unknown token makes exactly one
\* token-endpoint request before its first registry request
C10_OneTokenRequestFirst ==
  (api_pc # "idle" /\ ExpiredAtEntry /\ RegRequests # <<>>) =>
     Cardinality({ j \in 1..(FirstReg - 1) : IsTokenReq(call_log[j]) }) = 1

C10_Witness ==
  /\ Returned /\ ExpiredAtEntry /\ entry_token.known /\ RegRequests # <<>>
  /\ FirstReg = 2 /\ IsTokenReq(call_log[1])

\* indexes in call_log of the token requests made because the token was
\* found expired at the head of a pass (line 226): the token requests that
\* do not answer a 401
ExpiryRequests ==
  { i \in 1..Len(call_log) :
      /\ IsTokenReq(call_log[i])
      /\ i = 1 \/ ~(IsReg(call_log[i - 1]) /\ call_log[i - 1].status = 401) }

\* a refresh token once held is never dropped (the token functions only
\* replace it), so the object holds one now iff it held one at every request
RefreshTokenHeld == sellsy.refresh_token.k # "none"

\* C11: when the token is found expiring at call time, the token endpoint is
\* called with the refresh-token grant if a refresh token is held, and with
\* the client-credentials grant only if none is held
C11_GrantFollowsRefreshToken ==
  \A i \in ExpiryRequests :
    call_log[i].grant = IF RefreshTokenHeld THEN "refresh_token" ELSE "client_credentials"

\* indexes in call_log of the token requests that failed
FailedTokenRequests ==
  { i \in 1..Len(call_log) : IsTokenReq(call_log[i]) /\ call_log[i].k # "ok" }

\* C12: when a needed token acquisition or refresh fails (at the expiry test
\* or after a 401), the call returns an error and sends no registry request
\* afterwards
C12_FailedRefreshRejects ==
  \A i \in FailedTokenRequests :
    /\ i = Len(call_log)
    /\ Returned
    /\ api_result = NoneResult

\* a call with two registry requests, the second answered 401, whose refresh
\* then failed
C12_Witness ==
  /\ Returned
  /\ Len(RegRequests) = 2
  /\ Len(call_log) \in FailedTokenRequests
  /\ call_log[Len(call_log) - 1].status = 401

\* the statuses the retry policy names as transient, and the 2xx statuses
ClaimedTransient == {429, 500, 502, 503, 504}
Success2xx == 200..299

TerminalAnswer(e) ==
  /\ IsReg(e)
  /\ e.k = "http"
  /\ e.status \notin (Success2xx \cup ClaimedTransient \cup {401})

\* C13: a non-2xx answer outside {429, 500, 502, 503, 504} (401 aside) ends
\* the call with an error at once, with no retry and no sleep; the only
\* answers followed by anything are the transient statuses, 401 and timeouts
C13_OtherStatusTerminal ==
  \A i \in 1..Len(call_log) :
    /\ TerminalAnswer(call_log[i]) =>
         /\ i = Len(call_log)
         /\ Returned
         /\ api_result = NoneResult
         /\ elapsed = call_log[i].at
    /\ (IsReg(call_log[i]) /\ i < Len(call_log)) =>
         \/ call_log[i].k = "timeout"
         \/ call_log[i].k = "http" /\ call_log[i].status \in ClaimedTransient \cup {401}

\* a call whose first request was retried and whose second got 400
C13_Witness ==
  /\ Returned
  /\ Len(RegRequests) = 2
  /\ RegRequests[1].status = 503
  /\ RegRequests[2].status = 400
  /\ TerminalAnswer(call_log[Len(call_log)])

IsHttpAnswer(e) == IsReg(e) /\ e.k = "http"
HttpAnswers == SelectSeq(call_log, IsHttpAnswer)

\* does the value returned by request_api carry the HTTP status s: the value
\* is None or the decoded body, and None carries nothing
CarriesStatus(result, s) == result.k = "error" /\ result.status = s

\* C14: when a call ends in failure after at least one HTTP response, the
\* value returned carries the status of the last response received
C14_FailureCarriesLastStatus ==
  (Returned /\ api_result.k = "None" /\ HttpAnswers # <<>>) =>
     CarriesStatus(api_result, HttpAnswers[Len(HttpAnswers)].status)

\* C15: every call terminates whatever the registry and the token endpoint
\* answer, and sends at most 3 requests to the registry
C15_TerminatesWithinThree ==
  /\ [](Len(RegRequests) <= 3)
  /\ (api_pc = "loop") ~> (api_pc = "ret")

\* a returned call of three requests that met a 401, a timeout and a 503
C15_Witness ==
  /\ Returned
  /\ Len(RegRequests) = 3
  /\ \E i, j, m \in 1..3 :
       /\ RegRequests[i].status = 401
       /\ RegRequests[j].k = "timeout"
       /\ RegRequests[m].status = 503

\* the time slept after each registry request of the current call, and the
\* sleeps that took place, in order
Gaps ==
  [i \in 1..Len(RegRequests) |->
     (IF i < Len(RegRequests) THEN RegRequests[i + 1].at ELSE elapsed) - RegRequests[i].at]
IsSleep(g) == g > 0
Sleeps == SelectSeq(Gaps, IsSleep)

\* C16: the sleeps of one call sum to at most 14s, the first lasts 2s and
\* each next one twice the one before
C16_BackoffDoublesFromTwo ==
  /\ elapsed <= 14
  /\ \A n \in 1..Len(Sleeps) : Sleeps[n] = 2 ^ n

====
